---- MODULE Spec2Model ----
\* Model of the poker client coordinator in src/frontend/src/App.svelte:
\* the component state (gameState, gamePhase, error, bet limits, reveal flag),
\* the async handlers startNewGame / handleAction / dealFlop / dealTurn /
\* dealRiver split where they suspend on the engine, and the engine as a
\* nondeterministic source of responses. A handler touches no component state
\* between `await fetch(...)` and `await response.json()`, so the two awaits
\* are one suspension and a response is delivered in one step.
EXTENDS Integers, Sequences, FiniteSets, Bags, TLC

\* ---------------------------------------------------------------- bounds
\* Largest number of handler invocations suspended on the engine at once.
MaxInFlight == 2
\* Largest current bet, chip count and prior bet amount updateBetLimits is
\* applied to on its own.
MaxCurrentBet == 8
MaxChips == 20
MaxAmount == 24

\* ------------------------------------------------------------- constants
\* Math.max(gameState.current_bet * 2, 10)
RaiseFactor == 2
MinRaiseFloor == 10
\* the 1/4, 1/2, 3/4 and full pot buttons: percentage = n / QuickBetDenominator
QuickBetDenominator == 4

\* ------------------------------------------------------------ value sets
\* null gameState, null error, absent last_action / amount / result field
NULL == [null |-> TRUE]
NoError == "<null>"
NoMsg == "<undefined>"
NoAction == "none"
NoAmount == -1
Phases == <<"preflop", "flop", "turn", "river", "showdown">>
ActionTypes == {"Fold", "Check", "Call", "Bet", "Raise"}
GameModes == {"Simulation", "RobotPlay"}
DealOps == {"flop", "turn", "river"}

\* values the engine puts in the game states it returns
Bets == {0, 50}
Chips == {30, 1000}
Pots == {200}
LastActions == {NoAction, "Fold", "Check", "Call", "Raise"}
\* values typed into the bound bet-amount input
BetInputs == {0, 500}

\* messages: the Error thrown for a non-success status, the engine's Err
\* payloads (the empty string is a legal JSON string), the Error thrown for a
\* response that is neither variant, and the message of the TypeError a
\* rejected fetch carries
HttpErrorMsg == "HTTP error! status: 500"
InvalidResponseMsg == "Invalid response from server"
FetchErrorMsg == "Failed to fetch"
ErrMessages == {"not your turn", ""}

PhaseIdx(p) ==
    CHOOSE i \in 1..5 : Phases[i] = p

Max(a, b) ==
    IF a >= b THEN a ELSE b

Min(a, b) ==
    IF a <= b THEN a ELSE b

\* a GameState payload as the engine serialises it
Players(ch) ==
    << [chips |-> ch, is_robot |-> FALSE, cards |-> 2],
       [chips |-> 1000, is_robot |-> TRUE, cards |-> 2] >>

GS(cb, ch, pot, la) ==
    [players |-> Players(ch), current_bet |-> cb, pot |-> pot, last_action |-> la]

NoPlayersState ==
    [players |-> << >>, current_bet |-> 0, pot |-> 0, last_action |-> NoAction]

\* every combination of the values above, and a state without players
AllPayloads ==
    { GS(cb, ch, pot, la) : cb \in Bets, ch \in Chips, pot \in Pots, la \in LastActions }
    \cup { NoPlayersState }

\* the states the engine answers with when handlers overlap: a round left
\* open (no last action, a Raise) and a round completed (Check, Call)
Payloads ==
    { GS(0, 1000, 200, la) : la \in {NoAction, "Raise", "Check", "Call"} }

\* the actions submitted when handlers overlap: one without an amount, one
\* that can complete a round, one with an amount
OverlapActionTypes == {"Fold", "Check", "Raise"}


VARIABLES
    gameState,      \* GameState | null
    gamePhase,      \* 'preflop' | 'flop' | 'turn' | 'river' | 'showdown'
    error,          \* string | null
    gameMode,       \* 'Simulation' | 'RobotPlay'
    betAmount,
    minRaise,
    maxBet,
    showRobotCards,
    inflight,       \* bag of the handler invocations suspended at an await
    started,        \* history: a startNewGame has succeeded
    last            \* history: what the last step did

vars == <<gameState, gamePhase, error, gameMode, betAmount, minRaise, maxBet,
          showRobotCards, inflight, started, last>>

\* ------------------------------------------------------- updateBetLimits
\* minRaise = gameState.current_bet * 2, without the floor of 10
UpdatedLimits_NoFloor(gs, b) ==
    IF gs # NULL /\ Len(gs.players) > 0
    THEN LET mr == gs.current_bet * RaiseFactor
             mb == gs.players[1].chips
             b1 == IF b < mr THEN mr ELSE b
             b2 == IF b1 > mb THEN mb ELSE b1
             b3 == IF b2 = 0 THEN mr ELSE b2
         IN [minRaise |-> mr, maxBet |-> mb, betAmount |-> b3]
    ELSE [minRaise |-> 0, maxBet |-> 0, betAmount |-> 0]

\* the `if (betAmount > maxBet)` clamp left out
UpdatedLimits_NoUpperClamp(gs, b) ==
    IF gs # NULL /\ Len(gs.players) > 0
    THEN LET mr == Max(gs.current_bet * RaiseFactor, MinRaiseFloor)
             mb == gs.players[1].chips
             b1 == IF b < mr THEN mr ELSE b
             b3 == IF b1 = 0 THEN mr ELSE b1
         IN [minRaise |-> mr, maxBet |-> mb, betAmount |-> b3]
    ELSE [minRaise |-> 0, maxBet |-> 0, betAmount |-> 0]

\* the else branch resetting the limits only and keeping betAmount
UpdatedLimits_KeepsAmount(gs, b) ==
    IF gs # NULL /\ Len(gs.players) > 0
    THEN LET mr == Max(gs.current_bet * RaiseFactor, MinRaiseFloor)
             mb == gs.players[1].chips
             b1 == IF b < mr THEN mr ELSE b
             b2 == IF b1 > mb THEN mb ELSE b1
             b3 == IF b2 = 0 THEN mr ELSE b2
         IN [minRaise |-> mr, maxBet |-> mb, betAmount |-> b3]
    ELSE [minRaise |-> 0, maxBet |-> 0, betAmount |-> b]

\* the three clamps run in the order of the code: raise to minRaise, lower to
\* maxBet, then replace 0 by minRaise
UpdatedLimits(gs, b) ==
    IF gs # NULL /\ Len(gs.players) > 0
    THEN LET mr == Max(gs.current_bet * RaiseFactor, MinRaiseFloor)
             mb == gs.players[1].chips
             b1 == IF b < mr THEN mr ELSE b
             b2 == IF b1 > mb THEN mb ELSE b1
             b3 == IF b2 = 0 THEN mr ELSE b2
         IN [minRaise |-> mr, maxBet |-> mb, betAmount |-> b3]
    ELSE [minRaise |-> 0, maxBet |-> 0, betAmount |-> 0]

\* setQuickBet(n / 4)
QuickBet(gs, n, mb) ==
    Min((gs.pot * n) \div QuickBetDenominator, mb)

\* ----------------------------------------------------------- players grid
\* {#if !player.is_robot || gameMode === 'Simulation'}: the player's section
\* is in the page
PlayerSectionRendered(player, mode) ==
    ~player.is_robot \/ mode = "Simulation"

\* {#if !player.is_robot || showRobotCards}: Card components (faces) instead
\* of card backs
CardFacesBranch(player, show) ==
    ~player.is_robot \/ show

\* what the page shows of a player's hand: "none" (no section), "faces" or
\* "backs"
RenderedHand(player, mode, show) ==
    IF ~PlayerSectionRendered(player, mode) THEN "none"
    ELSE IF CardFacesBranch(player, show) THEN "faces"
    ELSE "backs"

\* {#if gameMode === 'RobotPlay' && player.is_robot && !showRobotCards}: the
\* robot-status block, which is inside the player's section
RobotStatusBranch(player, mode, show) ==
    mode = "RobotPlay" /\ player.is_robot /\ ~show

\* what the page shows as a robot's status: "none" when the block is not in
\* the page; where it is, {#if player.cards.is_empty()} calls a method
\* JavaScript arrays do not have, and evaluating it throws a TypeError
RobotStatus(player, mode, show) ==
    IF PlayerSectionRendered(player, mode) /\ RobotStatusBranch(player, mode, show)
    THEN "TypeError"
    ELSE "none"

\* {#if gameMode === 'RobotPlay' && gameState && gameState.players &&
\* gameState.players.length > 0}: the betting controls are in the page
BettingControlsPresented(gs, mode) ==
    mode = "RobotPlay" /\ gs # NULL /\ Len(gs.players) > 0

\* --------------------------------------------------------- phase machine
\* the guard of each deal step and the phase it sets on success
DealSource(op) ==
    CASE op = "flop" -> "preflop"
      [] op = "turn" -> "flop"
      [] op = "river" -> "turn"

\* dealTurn written by copying dealFlop and keeping its gamePhase = 'flop'
DealTarget_CopyPaste(op) ==
    IF op = "turn" THEN "flop" ELSE op

\* dealRiver ending the round itself
DealTarget_RiverShowsDown(op) ==
    IF op = "river" THEN "showdown" ELSE op

DealTarget(op) ==
    op

\* any recorded last action taken as completing the round
RoundComplete_AnyAction(gs) ==
    gs.last_action # NoAction

\* gameState.last_action?.action_type === 'Call' || ... === 'Check'
RoundComplete(gs) ==
    gs.last_action \in {"Call", "Check"}

\* the turn branch (`await dealRiver()`) left out
ChainedDeal_NoRiver(phase) ==
    CASE phase = "preflop" -> "flop"
      [] phase = "flop" -> "turn"
      [] OTHER -> "none"

\* the deal step handleAction chains to in each phase ("none": no request)
ChainedDeal(phase) ==
    CASE phase = "preflop" -> "flop"
      [] phase = "flop" -> "turn"
      [] phase = "turn" -> "river"
      [] OTHER -> "none"

\* ------------------------------------------------------------- requests
\* a suspended handler invocation: the request it awaits (op), the action
\* type it was called with, whether it is a deal step called by handleAction
\* and from which phase; stale is history: a startNewGame succeeded since the
\* request was sent. In the history record of an Ok response, from is the
\* phase the response was applied in
Request(op, chained, from) ==
    [op |-> op, action_type |-> NoAction, chained |-> chained, from |-> from,
     stale |-> FALSE]

ActionRequest(t) ==
    [op |-> "action", action_type |-> t, chained |-> FALSE, from |-> "none",
     stale |-> FALSE]

NoRequest ==
    Request("none", FALSE, "none")

\* the suspended invocations are a bag: responses arrive in any order, so
\* the order the requests were sent in is not state
Suspend(b, r) ==
    b (+) SetToBag({r})

Remove(b, r) ==
    b (-) SetToBag({r})

Replace(b, r, q) ==
    (b (-) SetToBag({r})) (+) SetToBag({q})

Copies(b, r) ==
    IF r \in DOMAIN b THEN b[r] ELSE 0

Stale(r) ==
    [r EXCEPT !.stale = (r.op # "new")]

MarkStale(b) ==
    [q \in { Stale(r) : r \in DOMAIN b } |->
        Copies(b, q) + (IF q.stale THEN Copies(b, [q EXCEPT !.stale = FALSE]) ELSE 0)]

\* history record of one step: the event, the invocation it belongs to, the
\* Err message the engine sent (if any), the request the step sent (if any)
\* and the amount in its body
Event(ev, r, msg, sent, amount) ==
    [ev |-> ev, op |-> r.op, action_type |-> r.action_type, chained |-> r.chained,
     from |-> r.from, stale |-> r.stale, msg |-> msg, sent |-> sent,
     amount |-> amount]

\* ---------------------------------------------------- engine responses
\* the parsed body of a /player-action response: {Ok: state}, {Err: msg}
\* or {} (neither variant)
OkResult(p) ==
    [Ok |-> p, Err |-> NoMsg]

ErrResult(m) ==
    [Ok |-> NULL, Err |-> m]

EmptyResult ==
    [Ok |-> NULL, Err |-> NoMsg]

Results ==
    { OkResult(p) : p \in Payloads } \cup { ErrResult(m) : m \in ErrMessages }
    \cup { EmptyResult }

ResultKind(res) ==
    IF res.Ok # NULL THEN "Ok"
    ELSE IF res.Err # NoMsg THEN "Err"
    ELSE "empty"

\* JavaScript truthiness of result.Ok and result.Err
TruthyOk(res) ==
    res.Ok # NULL

TruthyErr(res) ==
    res.Err # NoMsg /\ res.Err # ""

\* the message of the exception handleAction's catch block receives for a
\* result that is not applied
ActionFailureMsg(res) ==
    IF TruthyErr(res) THEN res.Err ELSE InvalidResponseMsg

\* the message of a transport failure: fetch rejected (engine unreachable)
\* or non-success status
TransportOutcomes == {"reject", "http"}

\* a catch block that logs the exception and leaves error null
TransportMsg_Swallowed(outcome) ==
    NoError

\* the catch block's fallback text used for every exception
TransportMsg_Fallback(outcome) ==
    "Failed to start new game"

TransportMsg(outcome) ==
    CASE outcome = "reject" -> FetchErrorMsg
      [] outcome = "http" -> HttpErrorMsg

\* the component once mounted: the declared initial values, and onMount has
\* called startNewGame, which is suspended on its request
Init ==
    /\ gameState = NULL
    /\ gamePhase = "preflop"
    /\ error = NoError
    /\ gameMode = "RobotPlay"
    /\ betAmount = 0
    /\ minRaise = 0
    /\ maxBet = 0
    /\ showRobotCards = FALSE
    /\ inflight = SetToBag({ Request("new", FALSE, "none") })
    /\ started = FALSE
    /\ last = Event("invoke", Request("new", FALSE, "none"), NoMsg, "new", NoAmount)

\* ------------------------------------------------------------ user input
\* bind:value={betAmount} on the range and number inputs
SetBetAmount(a) ==
    /\ a # betAmount
    /\ betAmount' = a
    /\ last' = Event("input", NoRequest, NoMsg, "none", NoAmount)
    /\ UNCHANGED <<gameState, gamePhase, error, gameMode, minRaise, maxBet,
                   showRobotCards, inflight, started>>

SetQuickBet(n) ==
    /\ betAmount' = IF gameState # NULL THEN QuickBet(gameState, n, maxBet) ELSE betAmount
    /\ last' = Event("quickbet", NoRequest, NoMsg, "none", NoAmount)
    /\ UNCHANGED <<gameState, gamePhase, error, gameMode, minRaise, maxBet,
                   showRobotCards, inflight, started>>

\* ------------------------------------------------------- startNewGame
\* up to the await: error = null, request sent
StartNewGame ==
    /\ BagCardinality(inflight) < MaxInFlight
    /\ error' = NoError
    /\ inflight' = Suspend(inflight, Request("new", FALSE, "none"))
    /\ last' = Event("invoke", Request("new", FALSE, "none"), NoMsg, "new", NoAmount)
    /\ UNCHANGED <<gameState, gamePhase, gameMode, betAmount, minRaise, maxBet,
                   showRobotCards, started>>

\* the mode select: bind:value={gameMode} on:change={startNewGame}
SetGameMode(m) ==
    /\ m # gameMode
    /\ BagCardinality(inflight) < MaxInFlight
    /\ gameMode' = m
    /\ error' = NoError
    /\ inflight' = Suspend(inflight, Request("new", FALSE, "none"))
    /\ last' = Event("invoke", Request("new", FALSE, "none"), NoMsg, "new", NoAmount)
    /\ UNCHANGED <<gameState, gamePhase, betAmount, minRaise, maxBet, showRobotCards,
                   started>>

\* the response arrives: the new round replaces the state
NewGameData(r, p) ==
    /\ r.op = "new"
    /\ gameState' = p
    /\ gamePhase' = "preflop"
    /\ minRaise' = UpdatedLimits(p, betAmount).minRaise
    /\ maxBet' = UpdatedLimits(p, betAmount).maxBet
    /\ betAmount' = UpdatedLimits(p, betAmount).betAmount
    /\ showRobotCards' = FALSE
    /\ inflight' = MarkStale(Remove(inflight, r))
    /\ started' = TRUE
    /\ last' = Event("data", r, NoMsg, "none", NoAmount)
    /\ UNCHANGED <<error, gameMode>>

\* ---------------------------------------------------------- deal steps
\* whether the deal step passes its guard and sends its request
DealSends(op, phase) ==
    phase = DealSource(op)

\* error = null written before the phase guard instead of after it
DealCallError_ClearsFirst(op, phase, err) ==
    NoError

\* error after the synchronous part of a deal step: the guard returns before
\* error = null
DealCallError(op, phase, err) ==
    IF DealSends(op, phase) THEN NoError ELSE err

\* dealFlop / dealTurn / dealRiver invoked on their own (the Deal buttons)
Deal(op) ==
    /\ DealSends(op, gamePhase) => BagCardinality(inflight) < MaxInFlight
    /\ error' = DealCallError(op, gamePhase, error)
    /\ inflight' = IF DealSends(op, gamePhase)
                   THEN Suspend(inflight, Request(op, FALSE, "none"))
                   ELSE inflight
    /\ last' = Event("invoke", Request(op, FALSE, "none"), NoMsg,
                     IF DealSends(op, gamePhase) THEN op ELSE "none", NoAmount)
    /\ UNCHANGED <<gameState, gamePhase, gameMode, betAmount, minRaise, maxBet,
                   showRobotCards, started>>

\* the response arrives: gameState = data; gamePhase = target
DealData(r, p) ==
    /\ r.op \in DealOps
    /\ gameState' = p
    /\ gamePhase' = DealTarget(r.op)
    /\ inflight' = Remove(inflight, r)
    /\ last' = Event("data", r, NoMsg, "none", NoAmount)
    /\ UNCHANGED <<error, gameMode, betAmount, minRaise, maxBet, showRobotCards,
                   started>>

\* --------------------------------------------------------- handleAction
\* the amount each action button passes
ButtonAmount(t, b) ==
    IF t \in {"Bet", "Raise"} THEN b ELSE NoAmount

\* up to the await: error = null, POST /player-action sent
HandleAction(t) ==
    /\ BagCardinality(inflight) < MaxInFlight
    /\ error' = NoError
    /\ inflight' = Suspend(inflight, ActionRequest(t))
    /\ last' = Event("invoke", ActionRequest(t), NoMsg, "action",
                     ButtonAmount(t, betAmount))
    /\ UNCHANGED <<gameState, gamePhase, gameMode, betAmount, minRaise, maxBet,
                   showRobotCards, started>>

\* the next deal step called after every applied Ok state
NextDeal_AnyOk(p, phase) ==
    ChainedDeal(phase)

\* the deal step the Ok branch calls for the applied state ("none": no call)
NextDeal(p, phase) ==
    IF RoundComplete(p) THEN ChainedDeal(phase) ELSE "none"

\* the river branch reached for a Check only
ToShowdown_CheckOnly(p, phase) ==
    p.last_action = "Check" /\ phase = "river"

\* the Ok branch moves to showdown: round complete on the river
ToShowdown(p, phase) ==
    RoundComplete(p) /\ phase = "river"

\* the response arrives with result.Ok truthy: the state is applied, then the
\* next deal step is called (and suspends on its own request) or the round
\* goes to showdown
ActionOk(r, res) ==
    /\ r.op = "action"
    /\ TruthyOk(res)
    /\ gameState' = res.Ok
    /\ minRaise' = UpdatedLimits(res.Ok, betAmount).minRaise
    /\ maxBet' = UpdatedLimits(res.Ok, betAmount).maxBet
    /\ betAmount' = UpdatedLimits(res.Ok, betAmount).betAmount
    /\ LET d == NextDeal(res.Ok, gamePhase)
           sends == d # "none" /\ DealSends(d, gamePhase)
       IN /\ error' = IF d # "none" THEN DealCallError(d, gamePhase, error) ELSE error
          /\ inflight' = IF sends
                         THEN Replace(inflight, r, Request(d, TRUE, gamePhase))
                         ELSE Remove(inflight, r)
          /\ last' = Event("Ok", [r EXCEPT !.from = gamePhase], NoMsg,
                           IF sends THEN d ELSE "none", NoAmount)
    /\ gamePhase' = IF ToShowdown(res.Ok, gamePhase) THEN "showdown" ELSE gamePhase
    /\ showRobotCards' = IF ToShowdown(res.Ok, gamePhase) THEN TRUE ELSE showRobotCards
    /\ UNCHANGED <<gameMode, started>>

\* the response arrives with result.Ok falsy: throw new Error(result.Err) or
\* 'Invalid response from server', caught by the catch block
ActionFailure(r, res) ==
    /\ r.op = "action"
    /\ ~TruthyOk(res)
    /\ error' = ActionFailureMsg(res)
    /\ inflight' = Remove(inflight, r)
    /\ last' = Event(ResultKind(res), r, res.Err, "none", NoAmount)
    /\ UNCHANGED <<gameState, gamePhase, gameMode, betAmount, minRaise, maxBet,
                   showRobotCards, started>>

\* ------------------------------------------------------------ transport
\* a deal step assigning its target phase before the request is answered
TransportFailure_AdvancesPhase(r, outcome) ==
    /\ error' = TransportMsg(outcome)
    /\ gamePhase' = IF r.op \in DealOps THEN DealTarget(r.op) ELSE gamePhase
    /\ inflight' = Remove(inflight, r)
    /\ last' = Event(outcome, r, NoMsg, "none", NoAmount)
    /\ UNCHANGED <<gameState, gameMode, betAmount, minRaise, maxBet,
                   showRobotCards, started>>

\* a deal step called by handleAction sending its request again after a
\* failure
TransportFailure_RetriesDeal(r, outcome) ==
    /\ error' = TransportMsg(outcome)
    /\ inflight' = IF r.chained THEN inflight ELSE Remove(inflight, r)
    /\ last' = Event(outcome, r, NoMsg, IF r.chained THEN r.op ELSE "none", NoAmount)
    /\ UNCHANGED <<gameState, gamePhase, gameMode, betAmount, minRaise, maxBet,
                   showRobotCards, started>>

\* fetch rejects or the status is not ok: every handler's catch block sets
\* error to the exception's message
TransportFailure(r, outcome) ==
    /\ error' = TransportMsg(outcome)
    /\ inflight' = Remove(inflight, r)
    /\ last' = Event(outcome, r, NoMsg, "none", NoAmount)
    /\ UNCHANGED <<gameState, gamePhase, gameMode, betAmount, minRaise, maxBet,
                   showRobotCards, started>>

\* handlers invoked at any time, overlapping freely, against an engine that
\* answers each request in any order with any outcome
Next ==
    \/ StartNewGame
    \/ \E op \in DealOps : Deal(op)
    \/ \E t \in OverlapActionTypes : HandleAction(t)
    \/ \E r \in DOMAIN inflight, o \in TransportOutcomes : TransportFailure(r, o)
    \/ \E r \in DOMAIN inflight, p \in Payloads : NewGameData(r, p)
    \/ \E r \in DOMAIN inflight, p \in Payloads : DealData(r, p)
    \/ \E r \in DOMAIN inflight, res \in Results : ActionOk(r, res)
    \/ \E r \in DOMAIN inflight, res \in Results : ActionFailure(r, res)

Spec ==
    Init /\ [][Next]_vars

\* ------------------------------------------------ updateBetLimits alone
\* the game states updateBetLimits is applied to: every current bet and chip
\* count up to the bounds, a state without players and no state (null)
LimitStates ==
    { GS(cb, ch, 200, NoAction) : cb \in 0..MaxCurrentBet, ch \in 0..MaxChips }
    \cup { NoPlayersState, NULL }

\* the component at a call of updateBetLimits: gameState has just been
\* assigned, betAmount is whatever the bound input held
InitLimits ==
    /\ gameState \in LimitStates
    /\ betAmount \in 0..MaxAmount
    /\ minRaise = 0
    /\ maxBet = 0
    /\ gamePhase = "preflop"
    /\ error = NoError
    /\ gameMode = "RobotPlay"
    /\ showRobotCards = FALSE
    /\ inflight = EmptyBag
    /\ started = TRUE
    /\ last = Event("input", NoRequest, NoMsg, "none", NoAmount)

\* one call of updateBetLimits()
UpdateBetLimits ==
    /\ minRaise' = UpdatedLimits(gameState, betAmount).minRaise
    /\ maxBet' = UpdatedLimits(gameState, betAmount).maxBet
    /\ betAmount' = UpdatedLimits(gameState, betAmount).betAmount
    /\ last' = Event("limits", NoRequest, NoMsg, "none", NoAmount)
    /\ UNCHANGED <<gameState, gamePhase, error, gameMode, showRobotCards, inflight,
                   started>>

NextLimits ==
    UpdateBetLimits

SpecLimits ==
    InitLimits /\ [][NextLimits]_vars

\* operations issued one at a time: the user acts (bet inputs and mode select
\* included) only when no handler is suspended, and the engine answers with
\* any of the states in AllPayloads
Idle ==
    BagCardinality(inflight) = 0

NextSeq ==
    \/ Idle /\ \E a \in BetInputs : SetBetAmount(a)
    \/ Idle /\ \E n \in 1..QuickBetDenominator : SetQuickBet(n)
    \/ Idle /\ StartNewGame
    \/ Idle /\ \E m \in GameModes : SetGameMode(m)
    \/ Idle /\ \E op \in DealOps : Deal(op)
    \/ Idle /\ \E t \in ActionTypes : HandleAction(t)
    \/ \E r \in DOMAIN inflight, o \in TransportOutcomes : TransportFailure(r, o)
    \/ \E r \in DOMAIN inflight, p \in AllPayloads : NewGameData(r, p)
    \/ \E r \in DOMAIN inflight, p \in AllPayloads : DealData(r, p)
    \/ \E r \in DOMAIN inflight, p \in AllPayloads : ActionOk(r, OkResult(p))
    \/ \E r \in DOMAIN inflight, m \in ErrMessages : ActionFailure(r, ErrResult(m))
    \/ \E r \in DOMAIN inflight : ActionFailure(r, EmptyResult)

SpecSeq ==
    Init /\ [][NextSeq]_vars

\* ------------------------------------------------------ deal steps alone
\* rounds driven by the New Game button, the mode select and the deal steps
\* only: handleAction is never called
NextDeals ==
    \/ StartNewGame
    \/ \E m \in GameModes : SetGameMode(m)
    \/ \E op \in DealOps : Deal(op)
    \/ \E r \in DOMAIN inflight, o \in TransportOutcomes : TransportFailure(r, o)
    \/ \E r \in DOMAIN inflight, p \in Payloads : NewGameData(r, p)
    \/ \E r \in DOMAIN inflight, p \in Payloads : DealData(r, p)

SpecDeals ==
    Init /\ [][NextDeals]_vars

\* ------------------------------------------------- a round of Checks
\* the round-trips of a round played by Check alone: the engine accepts every
\* Check with a state whose last action is Check, and every deal request
\* succeeds
CheckedPayloads ==
    { p \in AllPayloads : p.last_action = "Check" }

\* a round just started, nothing outstanding
InitChecks ==
    /\ gameState \in { GS(cb, ch, 200, NoAction) : cb \in Bets, ch \in Chips }
    /\ gamePhase = "preflop"
    /\ error = NoError
    /\ gameMode = "RobotPlay"
    /\ minRaise = UpdatedLimits(gameState, 0).minRaise
    /\ maxBet = UpdatedLimits(gameState, 0).maxBet
    /\ betAmount = UpdatedLimits(gameState, 0).betAmount
    /\ showRobotCards = FALSE
    /\ inflight = EmptyBag
    /\ started = TRUE
    /\ last = Event("data", Request("new", FALSE, "none"), NoMsg, "none", NoAmount)

NextChecks ==
    \/ Idle /\ HandleAction("Check")
    \/ \E r \in DOMAIN inflight, p \in CheckedPayloads : ActionOk(r, OkResult(p))
    \/ \E r \in DOMAIN inflight, p \in AllPayloads : DealData(r, p)

\* the player keeps pressing Check and every request is answered
SpecChecks ==
    InitChecks /\ [][NextChecks]_vars /\ WF_vars(NextChecks)

\* ====================================================================
\* Properties
\* ====================================================================
\* the events that end one engine round-trip
Responses == {"Ok", "Err", "empty", "reject", "http", "data"}

\* the step that starts a new round
NewRoundStep ==
    last'.op = "new" /\ last'.ev = "data"

\* a step of the current round: a round has started and the step does not
\* belong to a request sent before it started
InRoundStep ==
    started /\ ~last'.stale

\* the player-action and deal requests of the current round still outstanding
Outstanding ==
    BagCardinality([ r \in { q \in DOMAIN inflight : q.op # "new" /\ ~q.stale } |-> inflight[r] ])

\* C1: within a round, no step other than a successful startNewGame lowers
\* gamePhase in the order preflop < flop < turn < river < showdown, whatever
\* the interleaving of handleAction and deal invocations and of the responses
\* to the requests sent in that round.
C1_PhaseNeverDecreases ==
    [][ (InRoundStep /\ ~NewRoundStep)
        => PhaseIdx(gamePhase') >= PhaseIdx(gamePhase) ]_vars

\* C2: within a round, every change of gamePhase other than the reset by a
\* successful startNewGame goes from a phase to its immediate successor.
C2_OnlySuccessorEdges ==
    [][ (InRoundStep /\ ~NewRoundStep /\ gamePhase' # gamePhase)
        => PhaseIdx(gamePhase') = PhaseIdx(gamePhase) + 1 ]_vars

\* C3: at no time are two player-action or deal round-trips of the same round
\* outstanding.
C3_AtMostOneOutstanding ==
    started => Outstanding <= 1

\* C4: the response to a player-action or deal request sent before the most
\* recent successful startNewGame changes neither gameState nor gamePhase nor
\* showRobotCards.
C4_StaleResponseDiscarded ==
    [][ (last'.stale /\ last'.ev \in Responses)
        => UNCHANGED <<gameState, gamePhase, showRobotCards>> ]_vars

\* C5: when the engine answers a player-action request with Err(m),
\* handleAction leaves gameState, gamePhase, minRaise, maxBet, betAmount and
\* showRobotCards as they were, sends no deal request and sets error to
\* exactly m.
C5_ErrSurfacedVerbatim ==
    [][ (InRoundStep /\ last'.op = "action" /\ last'.ev = "Err")
        => /\ UNCHANGED <<gameState, gamePhase, minRaise, maxBet, betAmount,
                          showRobotCards>>
           /\ last'.sent = "none"
           /\ error' = last'.msg ]_vars

\* C6: when a player-action request fails at transport level (fetch rejected,
\* non-success status) or its response is neither an Ok nor an Err variant,
\* handleAction leaves gameState, gamePhase, the bet limits and
\* showRobotCards unchanged and ends with a non-null error.
C6_TransportFailureKeepsState ==
    [][ (last'.op = "action" /\ last'.ev \in {"reject", "http", "empty"})
        => /\ UNCHANGED <<gameState, gamePhase, minRaise, maxBet, betAmount,
                          showRobotCards>>
           /\ error' # NoError ]_vars

C6_Witness ==
    /\ last.op = "action" /\ last.ev = "http"
    /\ started /\ gameState # NULL /\ gamePhase = "flop"
    /\ error = HttpErrorMsg

\* C7 as stated: when handleAction completes after an Ok response whose last
\* action is Call or Check in preflop, flop or turn, gamePhase is one phase
\* past the phase the action was applied in.
C7_AdvancedWhenComplete ==
    (started /\ last.chained /\ last.ev \in Responses /\ ~last.stale)
        => PhaseIdx(gamePhase) = PhaseIdx(last.from) + 1

\* C7 amended: an Ok response whose last action is Call or Check, applied in
\* preflop, flop or turn, makes handleAction send the deal request of the
\* next phase and leaves gamePhase as it is; when that request succeeds
\* gamePhase becomes the immediate successor of the phase the action was
\* applied in, and when it fails handleAction does not change gamePhase.
C7_AdvanceOnDealSuccess ==
    [][ /\ (last'.op = "action" /\ last'.ev = "Ok"
            /\ gameState'.last_action \in {"Call", "Check"}
            /\ gamePhase \in {"preflop", "flop", "turn"})
           => (last'.sent = Phases[PhaseIdx(gamePhase) + 1] /\ gamePhase' = gamePhase)
        /\ (last'.chained /\ last'.ev = "data")
           => PhaseIdx(gamePhase') = PhaseIdx(last'.from) + 1
        /\ (last'.chained /\ last'.ev \in {"reject", "http"})
           => gamePhase' = gamePhase ]_vars

C7_Witness ==
    /\ last.chained /\ last.ev = "data" /\ last.from = "flop"
    /\ gamePhase = "turn" /\ BagCardinality(inflight) = 0

\* C8 as stated: when gamePhase is river and a submitted Call or Check is
\* accepted, handleAction sets gamePhase to showdown and showRobotCards to
\* true and sends no deal request.
C8_SubmittedCallShowdown ==
    [][ (InRoundStep /\ last'.op = "action" /\ last'.ev = "Ok" /\ gamePhase = "river"
         /\ last'.action_type \in {"Call", "Check"})
        => (gamePhase' = "showdown" /\ showRobotCards' /\ last'.sent = "none") ]_vars

\* C8 amended: when gamePhase is river and a player action is accepted with a
\* state whose last action is Call or Check, handleAction sets gamePhase to
\* showdown and showRobotCards to true and sends no deal request.
C8_RiverToShowdown ==
    [][ (last'.op = "action" /\ last'.ev = "Ok" /\ gamePhase = "river"
         /\ gameState'.last_action \in {"Call", "Check"})
        => (gamePhase' = "showdown" /\ showRobotCards' /\ last'.sent = "none") ]_vars

C8_Witness ==
    /\ last.op = "action" /\ last.ev = "Ok" /\ last.from = "river"
    /\ gameState.last_action = "Call"
    /\ gamePhase = "showdown" /\ showRobotCards /\ last.sent = "none"

\* C9 as stated: whatever the engine answers to a submitted Fold, Bet or
\* Raise, handleAction leaves gamePhase as it was and sends no deal request.
C9_SubmittedFoldBetRaise ==
    [][ (InRoundStep /\ last'.op = "action" /\ last'.ev \in Responses
         /\ last'.action_type \in {"Fold", "Bet", "Raise"})
        => (gamePhase' = gamePhase /\ last'.sent = "none") ]_vars

\* C9 amended: a handleAction call whose response is a failure, or an Ok
\* state whose last action is not Call or Check, leaves gamePhase as it was
\* and sends no deal request, whatever action type was submitted.
C9_NoAdvanceUnlessRoundComplete ==
    [][ (last'.op = "action" /\ last'.ev \in Responses
         /\ (last'.ev = "Ok" => gameState'.last_action \notin {"Call", "Check"}))
        => (gamePhase' = gamePhase /\ last'.sent = "none") ]_vars

C9_Witness ==
    /\ last.op = "action" /\ last.ev = "Ok" /\ last.action_type = "Raise"
    /\ gameState.last_action = "Raise"
    /\ last.from = "flop" /\ gamePhase = "flop" /\ last.sent = "none"

\* C10: a deal step invoked while gamePhase is not its source phase sends no
\* request and leaves gameState, gamePhase, showRobotCards and error as they
\* were.
C10_WrongPhaseDealIsNoOp ==
    [][ (last'.ev = "invoke"
         /\ \/ last'.op = "flop" /\ gamePhase # "preflop"
            \/ last'.op = "turn" /\ gamePhase # "flop"
            \/ last'.op = "river" /\ gamePhase # "turn")
        => /\ UNCHANGED <<gameState, gamePhase, showRobotCards, error, inflight>>
           /\ last'.sent = "none" ]_vars

C10_Witness ==
    /\ last.ev = "invoke" /\ last.op = "river" /\ last.sent = "none"
    /\ gamePhase = "preflop" /\ started
    /\ error = "not your turn"

\* C11: a deal step invoked again directly after an invocation of the same
\* step that passed its guard -- while that request is still outstanding, or
\* directly after its response was applied -- sends no request and leaves the
\* set of outstanding requests as it was.
C11_SecondDealIsNoOp ==
    [][ (started /\ last'.ev = "invoke" /\ last'.op \in DealOps
         /\ last.op = last'.op /\ ~last.stale
         /\ \/ last.ev = "invoke" /\ last.sent = last.op
            \/ last.ev = "data")
        => (last'.sent = "none" /\ UNCHANGED inflight) ]_vars

\* C12: no step of the current round takes a state in which showRobotCards
\* implies gamePhase = showdown to a state in which showRobotCards is true
\* while gamePhase is preflop, flop, turn or river.
C12_RevealOnlyAtShowdown ==
    [][ (InRoundStep /\ (showRobotCards => gamePhase = "showdown"))
        => (showRobotCards' => gamePhase' = "showdown") ]_vars

\* C13: for every player of the game state the page shows the hand face up
\* exactly when the player is not a robot, or gamePhase is showdown, or
\* gameMode is Simulation.
C13_RenderedMatchesRevealGate ==
    gameState # NULL =>
        \A i \in DOMAIN gameState.players :
            (RenderedHand(gameState.players[i], gameMode, showRobotCards) = "faces")
            <=> (\/ ~gameState.players[i].is_robot
                 \/ gamePhase = "showdown"
                 \/ gameMode = "Simulation")

\* C14: after updateBetLimits has run on a game state with at least one
\* player, minRaise = max(2 * current_bet, 10), and no smaller current bet
\* gives a larger minRaise.
C14_MinRaiseRule ==
    (last.ev = "limits" /\ gameState # NULL /\ Len(gameState.players) > 0)
        => /\ minRaise = Max(2 * gameState.current_bet, 10)
           /\ \A c \in 0..gameState.current_bet :
                 UpdatedLimits([gameState EXCEPT !.current_bet = c], betAmount).minRaise
                     <= minRaise

C14_Witness ==
    /\ last.ev = "limits"
    /\ gameState # NULL /\ Len(gameState.players) > 0
    /\ gameState.current_bet = 7 /\ minRaise = 14

\* C15: when players[0].chips >= max(2 * current_bet, 10), updateBetLimits
\* leaves betAmount within [max(2 * current_bet, 10), chips], and leaves it
\* as it was when it already was in that interval.
C15_ClampedIntoInterval ==
    [][ (/\ last'.ev = "limits"
         /\ gameState # NULL /\ Len(gameState.players) > 0
         /\ gameState.players[1].chips >= Max(2 * gameState.current_bet, 10)
         /\ betAmount >= 0)
        => /\ Max(2 * gameState.current_bet, 10) <= betAmount'
           /\ betAmount' <= gameState.players[1].chips
           /\ minRaise' <= betAmount' /\ betAmount' <= maxBet'
           /\ (/\ Max(2 * gameState.current_bet, 10) <= betAmount
               /\ betAmount <= gameState.players[1].chips)
              => betAmount' = betAmount ]_vars

C15_Witness ==
    /\ last.ev = "limits"
    /\ gameState # NULL /\ Len(gameState.players) > 0
    /\ gameState.current_bet = 6 /\ gameState.players[1].chips = 15
    /\ minRaise = 12 /\ maxBet = 15 /\ betAmount = 15

\* C16: when players[0].chips < max(2 * current_bet, 10), chips = 0
\* included, updateBetLimits leaves betAmount = maxBet = players[0].chips
\* whatever betAmount was.
C16_ShortStackAllIn ==
    [][ (/\ last'.ev = "limits"
         /\ gameState # NULL /\ Len(gameState.players) > 0
         /\ gameState.players[1].chips < Max(2 * gameState.current_bet, 10))
        => /\ maxBet' = gameState.players[1].chips
           /\ betAmount' = maxBet' ]_vars

\* C17: in every reachable state in which the betting controls are
\* presented, minRaise <= betAmount <= maxBet.
C17_PresentedAmountWithinLimits ==
    BettingControlsPresented(gameState, gameMode)
        => (minRaise <= betAmount /\ betAmount <= maxBet)

\* C18: a player-action request sent from the betting controls carries, for
\* Bet and Raise, an amount within [max(2 * current_bet, 10), players[0].chips]
\* of the current game state whenever that interval is not empty, and for
\* Fold, Check and Call no amount.
C18_SentAmountLegal ==
    [][ (/\ last'.ev = "invoke" /\ last'.op = "action"
         /\ BettingControlsPresented(gameState, gameMode)
         /\ Max(2 * gameState.current_bet, 10) <= gameState.players[1].chips)
        => IF last'.action_type \in {"Bet", "Raise"}
           THEN /\ Max(2 * gameState.current_bet, 10) <= last'.amount
                /\ last'.amount <= gameState.players[1].chips
           ELSE last'.amount = NoAmount ]_vars

\* C19: whenever no handler is suspended and the game state has a player,
\* minRaise = max(2 * gameState.current_bet, 10) and
\* maxBet = gameState.players[0].chips.
C19_LimitsFollowGameState ==
    (started /\ Idle /\ gameState # NULL /\ Len(gameState.players) > 0)
        => /\ minRaise = Max(2 * gameState.current_bet, 10)
           /\ maxBet = gameState.players[1].chips

\* C20: setQuickBet on a game state with a player sets betAmount, for the
\* fraction n/4 it was called with, to
\* min(floor(gameState.pot * n / 4), gameState.players[0].chips).
C20_QuickBetCappedByChips ==
    [][ (last'.ev = "quickbet" /\ gameState # NULL /\ Len(gameState.players) > 0)
        => \E n \in 1..4 :
             /\ betAmount' = QuickBet(gameState, n, maxBet)
             /\ betAmount' = Min((gameState.pot * n) \div 4,
                                 gameState.players[1].chips) ]_vars

\* C21: updateBetLimits run with no game state, or with a game state without
\* players, sets minRaise, maxBet and betAmount to 0 and leaves error as it
\* was.
C21_DegenerateLimitsAreZero ==
    [][ (last'.ev = "limits"
         /\ (gameState = NULL \/ Len(gameState.players) = 0))
        => /\ minRaise' = 0 /\ maxBet' = 0 /\ betAmount' = 0
           /\ error' = error ]_vars

C21_Witness ==
    /\ last.ev = "limits" /\ gameState = NULL
    /\ minRaise = 0 /\ maxBet = 0 /\ betAmount = 0 /\ error = NoError

\* the player-action requests among the suspended invocations
ActionsOutstanding(b) ==
    BagCardinality([ r \in { q \in DOMAIN b : q.op = "action" } |-> b[r] ])

\* C22: a handleAction call sends one player-action request when invoked;
\* the step that handles its response sends no player-action request and at
\* most one request, a deal request, and that only for an Ok state whose last
\* action is Call or Check applied in preflop, flop or turn; the step that
\* handles the response to that deal request sends nothing.
C22_OneRequestPerAction ==
    [][ /\ (last'.op = "action" /\ last'.ev = "invoke")
           => /\ last'.sent = "action"
              /\ ActionsOutstanding(inflight') = ActionsOutstanding(inflight) + 1
              /\ BagCardinality(inflight') = BagCardinality(inflight) + 1
        /\ (last'.op = "action" /\ last'.ev \in Responses)
           => /\ ActionsOutstanding(inflight') = ActionsOutstanding(inflight) - 1
              /\ BagCardinality(inflight') <= BagCardinality(inflight)
              /\ last'.sent \in DealOps \cup {"none"}
              /\ (last'.sent = "none")
                    <=> (BagCardinality(inflight') = BagCardinality(inflight) - 1)
              /\ (last'.sent # "none")
                    => /\ last'.ev = "Ok"
                       /\ gameState'.last_action \in {"Call", "Check"}
                       /\ gamePhase \in {"preflop", "flop", "turn"}
        /\ (last'.chained /\ last'.ev \in Responses)
           => /\ last'.sent = "none"
              /\ BagCardinality(inflight') = BagCardinality(inflight) - 1 ]_vars

C22_Witness ==
    /\ last.op = "action" /\ last.ev = "Ok" /\ last.sent = "turn"
    /\ started /\ gamePhase = "flop" /\ gameState.last_action = "Check"
    /\ BagCardinality(inflight) = 1 /\ ActionsOutstanding(inflight) = 0

\* C23: the state a successful startNewGame ends in is the state a session
\* with any other prior betAmount ends in on the same response: gamePhase is
\* preflop, showRobotCards is false, and minRaise, maxBet and betAmount are
\* what updateBetLimits gives for the new game state from every prior
\* betAmount.
C23_NothingCarriedOver ==
    [][ (last'.op = "new" /\ last'.ev = "data")
        => /\ gamePhase' = "preflop" /\ ~showRobotCards'
           /\ \A b \in BetInputs :
                 /\ minRaise' = UpdatedLimits(gameState', b).minRaise
                 /\ maxBet' = UpdatedLimits(gameState', b).maxBet
                 /\ betAmount' = UpdatedLimits(gameState', b).betAmount ]_vars

\* C24: with operations issued one at a time, when the deal request sent by
\* handleAction after an Ok state with last action Call or Check fails at
\* transport level, the failure directly follows the application of that
\* state, gameState stays that state, gamePhase stays the phase the action
\* was applied in, error becomes the failure's message, and no request is
\* sent or left outstanding.
C24_DealFailureKeepsAppliedAction ==
    [][ (last'.chained /\ last'.ev \in {"reject", "http"})
        => /\ last.op = "action" /\ last.ev = "Ok" /\ last.sent = last'.op
           /\ gameState' = gameState
           /\ gameState'.last_action \in {"Call", "Check"}
           /\ gamePhase' = gamePhase /\ gamePhase' = last'.from
           /\ gamePhase' \in {"preflop", "flop", "turn"}
           /\ error' = (IF last'.ev = "reject" THEN FetchErrorMsg ELSE HttpErrorMsg)
           /\ last'.sent = "none"
           /\ inflight' = EmptyBag
           /\ UNCHANGED <<minRaise, maxBet, betAmount, showRobotCards>> ]_vars

C24_Witness ==
    /\ last.chained /\ last.ev = "http" /\ last.op = "turn" /\ last.from = "flop"
    /\ gamePhase = "flop" /\ gameState.last_action = "Check"
    /\ error = HttpErrorMsg /\ Idle

\* C25: in a round played by handleAction('Check') calls issued one at a
\* time, with every Check accepted and every deal request answered, each
\* call made in preflop, flop or turn sends, once its Ok state is applied,
\* the deal request of the next phase and ends one phase later when that
\* request is answered; the call made in river ends in showdown without a
\* deal request; no other request is sent; so the fourth call from preflop
\* ends in showdown, which the round eventually reaches.
C25_FourChecksReachShowdown ==
    /\ [][
            /\ (last'.ev = "invoke")
               => (last'.op = "action" /\ last'.action_type = "Check" /\ Idle)
            /\ (last'.sent \in DealOps) => (last'.ev = "Ok")
            /\ (last'.ev = "Ok" /\ gamePhase \in {"preflop", "flop", "turn"})
               => /\ last'.sent = Phases[PhaseIdx(gamePhase) + 1]
                  /\ gamePhase' = gamePhase
                  /\ BagCardinality(inflight') = 1
            /\ (last'.ev = "Ok" /\ gamePhase = "river")
               => /\ gamePhase' = "showdown" /\ showRobotCards'
                  /\ last'.sent = "none" /\ inflight' = EmptyBag
            /\ (last'.ev = "data")
               => /\ last.ev = "Ok" /\ last.sent = last'.op
                  /\ last'.op = Phases[PhaseIdx(gamePhase) + 1]
                  /\ gamePhase' = last'.op
                  /\ inflight' = EmptyBag
            /\ PhaseIdx(gamePhase') \in {PhaseIdx(gamePhase), PhaseIdx(gamePhase) + 1}
          ]_vars
    /\ <>(gamePhase = "showdown" /\ showRobotCards /\ Idle)

C25_Witness ==
    /\ last.op = "action" /\ last.action_type = "Check" /\ last.ev = "Ok"
    /\ last.from = "river" /\ gamePhase = "showdown" /\ showRobotCards /\ Idle

\* C26: when handleAction is never called, in either mode and however the
\* deal steps and new games interleave, gamePhase is never showdown and
\* showRobotCards is never true.
C26_DealsNeverReachShowdown ==
    /\ gamePhase \in {"preflop", "flop", "turn", "river"}
    /\ ~showRobotCards

C26_Witness ==
    /\ last.op = "river" /\ last.ev = "data" /\ started
    /\ gameMode = "Simulation" /\ gamePhase = "river" /\ ~showRobotCards

\* C27: a startNewGame whose request fails (fetch rejected or non-success
\* status) leaves gameState, gamePhase, minRaise, maxBet, betAmount and
\* showRobotCards as they were and sets error to the failure's message.
C27_FailedNewGameKeepsRound ==
    [][ (last'.op = "new" /\ last'.ev \in {"reject", "http"})
        => /\ UNCHANGED <<gameState, gamePhase, minRaise, maxBet, betAmount,
                          showRobotCards, started>>
           /\ error' = (IF last'.ev = "reject" THEN FetchErrorMsg ELSE HttpErrorMsg)
           /\ last'.sent = "none" ]_vars

C27_Witness ==
    /\ last.op = "new" /\ last.ev = "http" /\ error = HttpErrorMsg
    /\ started /\ gameState # NULL /\ gamePhase = "showdown" /\ showRobotCards

\* C28: with operations issued one at a time, a deal request that fails at
\* transport level leaves gameState and gamePhase as they were and sets
\* error to the failure's message; gamePhase is then still the source phase
\* of that deal step, and the same deal step invoked next sends a new
\* request.
C28_FailedDealCanBeRetried ==
    [][ /\ (last'.op \in DealOps /\ last'.ev \in {"reject", "http"})
           => /\ UNCHANGED <<gameState, gamePhase, minRaise, maxBet, betAmount,
                             showRobotCards>>
              /\ error' = (IF last'.ev = "reject" THEN FetchErrorMsg ELSE HttpErrorMsg)
              /\ \/ last'.op = "flop" /\ gamePhase' = "preflop"
                 \/ last'.op = "turn" /\ gamePhase' = "flop"
                 \/ last'.op = "river" /\ gamePhase' = "turn"
        /\ (/\ last.op \in DealOps /\ last.ev \in {"reject", "http"}
            /\ last'.ev = "invoke" /\ last'.op = last.op)
           => /\ last'.sent = last'.op
              /\ BagCardinality(inflight') = 1
              /\ error' = NoError ]_vars

C28_Witness ==
    /\ last.op = "turn" /\ last.ev = "reject" /\ ~last.chained
    /\ started /\ gamePhase = "flop" /\ error = FetchErrorMsg /\ Idle

\* C29: in RobotPlay, while showRobotCards is false, the page shows for every
\* robot player a status indicator, 'Folded' if the player has zero cards
\* and 'Active' otherwise (checked for the cards the player holds and for
\* the same player holding none).
C29_HiddenRobotHasStatus ==
    (gameState # NULL /\ gameMode = "RobotPlay" /\ ~showRobotCards)
        => \A i \in DOMAIN gameState.players :
             gameState.players[i].is_robot
             => \A c \in {0, gameState.players[i].cards} :
                  RobotStatus([gameState.players[i] EXCEPT !.cards = c],
                              gameMode, showRobotCards)
                  = (IF c = 0 THEN "Folded" ELSE "Active")
====
